---------------------------- MODULE Spec2Model ----------------------------
(***************************************************************************)
(* Hierarch role manager: the periodic batch that ranks members by the     *)
(* mentions they received, grants the Hierarch role to the qualified ones  *)
(* and walks the unqualified role-holders through a grace period.          *)
(*                                                                         *)
(* The repository holds two programs with the same skeleton:               *)
(*   "part_000"      src/unnamed/part_000  (threshold for special roles,   *)
(*                   role mutations applied)                               *)
(*   "role_manager"  src/role-manager.js   (dry run: the role mutations    *)
(*                   are commented out; every mentioned special-role       *)
(*                   member counts as active)                              *)
(* A behaviour runs one of them (program), again and again, against one    *)
(* grace file and one guild directory.  One run of the 'ready' handler is  *)
(* one action.  What the Discord API answers in a run (the mention map,    *)
(* which calls are rejected) is an input of that run.                      *)
(*                                                                         *)
(* TOP_COUNT and GRACE_PERIOD_WEEKS are constants of the source (30, and   *)
(* 2 or 4).  Here they are configuration chosen once in Init from          *)
(* 1..MaxTop and 0..MaxGrace, so that the cut at the N-th rank and each    *)
(* branch on the grace length happen with a handful of users.              *)
(*                                                                         *)
(* hierarchRole.members is read off the member cache; the cache is taken   *)
(* to hold every member of the guild (the client asks for the GuildMembers *)
(* intent) and the members are taken in ascending order of their ids.      *)
(*                                                                         *)
(* Not modelled: user names, timestamps, the log and summary files and the *)
(* text of the Discord summary.                                            *)
(***************************************************************************)
EXTENDS Integers, Sequences, FiniteSets, TLC

\* ------------------------------------------------------------- bounds
NumUsers == 2   \* user ids 1..NumUsers
MaxCount == 2   \* mentions of one user in the window
MaxTop == 2     \* TOP_COUNT ranges over 1..MaxTop
MaxGrace == 2   \* GRACE_PERIOD_WEEKS ranges over 0..MaxGrace
MaxFaults == 0  \* rejected API calls in one run
MaxWeeksOver == 1  \* how far past the grace length a stored weeksOut may grow
NumProcs == 2   \* processes started against the same grace file
MaxRejected == 1   \* rejected API calls in one run of SpecFaults
MaxFaultGrace == 1 \* GRACE_PERIOD_WEEKS ranges over 0..MaxFaultGrace in SpecFaults
NumChannels == 2   \* tracked channels (CHANNELS_IDS)
MaxMentions == 2   \* mentions met in one channel within the window

Users == 1..NumUsers
Programs == {"part_000", "role_manager"}

\* ------------------------------------------------------ configuration
HIERARCH_ROLE_ID == "hierarch"
MEMBER_ROLE_ID == "member"
PROTECTED_ROLES_IDS == {"highlord"}
SPECIAL_ROLES_IDS == {"chieftain"}
RoleIds == {HIERARCH_ROLE_ID, MEMBER_ROLE_ID} \cup PROTECTED_ROLES_IDS \cup SPECIAL_ROLES_IDS

VARIABLES
    program,             \* which of the two programs the behaviour runs
    TOP_COUNT,           \* top-N cutoff
    GRACE_PERIOD_WEEKS,  \* grace length G
    guild,               \* the directory: user id -> set of role ids
    graceFile,           \* grace-tracking.json: user id -> weeksOut
    input,               \* what the last run was given
    before,              \* the grace file and the directory as the last run found them
    qualified,           \* the last run's qualification result
    result,              \* the last run's outcome, its logData and its API calls
    streak,              \* history: user id -> their consecutive disqualified runs
    graceFileState,      \* grace-tracking.json on disk: "valid", "missing" or "corrupt"
    inflight,            \* process -> what a run has loaded and not yet written back
    sinceQualified,      \* history: user id -> the runs since the user last qualified
    outRuns,             \* history: user id -> their disqualified runs without a removal
    channels             \* the tracked channels as the last scan met them

vars == <<program, TOP_COUNT, GRACE_PERIOD_WEEKS, guild, graceFile,
          input, before, qualified, result, streak,
          graceFileState, inflight, sinceQualified, outRuns, channels>>

\* The history and the process bookkeeping that only some behaviours keep.
aside == <<graceFileState, inflight, sinceQualified, outRuns, channels>>

\* ---------------------------------------------------- sequence helpers
Min(a, b) == IF a < b THEN a ELSE b

Range(seq) == {seq[i] : i \in 1..Len(seq)}

\* Array.prototype.slice(0, n)
slice(seq, n) == SubSeq(seq, 1, Min(n, Len(seq)))

\* Array.prototype.map(u => u.userId)
userIds(seq) == [i \in 1..Len(seq) |-> seq[i].userId]

\* The sort step with the comparison forgotten: x goes to the end.
insertByMentions_unordered(sorted, x) == Append(sorted, x)

\* One step of the sort: x goes behind every element whose mentionCount is
\* at least its own, so elements that tie keep their order.
insertByMentions(sorted, x) ==
    LET k == Cardinality({i \in 1..Len(sorted) : sorted[i].mentionCount >= x.mentionCount})
    IN SubSeq(sorted, 1, k) \o <<x>> \o SubSeq(sorted, k + 1, Len(sorted))

\* Array.prototype.sort((a, b) => b.mentionCount - a.mentionCount): descending
\* and stable (ECMAScript 2019).
RECURSIVE sortByMentions(_)
sortByMentions(seq) ==
    IF seq = <<>> THEN <<>>
    ELSE insertByMentions(sortByMentions(SubSeq(seq, 1, Len(seq) - 1)), seq[Len(seq)])

\* The ids of a set in ascending order (the order in which a loop over a
\* collection of members is taken).
RECURSIVE ascending(_)
ascending(S) ==
    IF S = {} THEN <<>>
    ELSE LET m == CHOOSE x \in S : \A y \in S : x <= y
         IN <<m>> \o ascending(S \ {m})

\* ------------------------------------------------------ the directory
\* member.roles.cache.some(role => PROTECTED_ROLES_IDS.includes(role.id))
hasProtectedRole(roles) == roles \cap PROTECTED_ROLES_IDS # {}

\* member.roles.cache.some(role => SPECIAL_ROLES_IDS.includes(role.id))
hasSpecialRole(roles) == roles \cap SPECIAL_ROLES_IDS # {}

\* hierarchRole.members
holders(g) == {u \in Users : HIERARCH_ROLE_ID \in g[u]}

\* ------------------------------------------------------ the grace store
\* delete graceTracking[u]
graceDelete(g, u) == [v \in DOMAIN g \ {u} |-> g[v]]

\* graceTracking[u] = {weeksOut: w}, or graceTracking[u].weeksOut = w
gracePut(g, u, w) == [v \in DOMAIN g \cup {u} |-> IF v = u THEN w ELSE g[v]]

EmptyGrace == [v \in {} |-> 0]

\* ---------------------------------------------- part_000: qualification
\* The entry of one mentioned member: userData.
userData(e, g) == [userId |-> e.userId, mentionCount |-> e.count, member |-> g[e.userId]]

\* The members of the mention map that can be fetched and have the Member role.
fetchedMembers(g, fetchFails, mentionCount) ==
    SelectSeq(mentionCount,
              LAMBDA e : e.userId \notin fetchFails /\ MEMBER_ROLE_ID \in g[e.userId])

categorizeMembers(g, fetchFails, mentionCount) ==
    LET ms == fetchedMembers(g, fetchFails, mentionCount)
        all == [i \in 1..Len(ms) |-> userData(ms[i], g)]
        prot == SelectSeq(all, LAMBDA d : hasProtectedRole(d.member))
        spec == SelectSeq(all, LAMBDA d : ~hasProtectedRole(d.member) /\ hasSpecialRole(d.member))
        reg == SelectSeq(all, LAMBDA d : ~hasProtectedRole(d.member) /\ ~hasSpecialRole(d.member))
    IN [regularMembers |-> sortByMentions(reg),
        specialMembers |-> sortByMentions(spec),
        protectedMembers |-> prot]

\* The threshold taken from the first of the top members instead of the last.
thresholdOf_first(top30Regular) ==
    IF Len(top30Regular) > 0 THEN top30Regular[1].mentionCount ELSE 0

thresholdOf(top30Regular) ==
    IF Len(top30Regular) > 0 THEN top30Regular[Len(top30Regular)].mentionCount ELSE 0

\* The comparison with the threshold letting a tie through.
beatsThreshold_tie(m, threshold) == m.mentionCount >= threshold

beatsThreshold(m, threshold) == m.mentionCount > threshold

\* determineQualified with the threshold read off the whole ranking instead
\* of its first TOP_COUNT members.
determineQualified_uncut(regularMembers, specialMembers, protectedMembers) ==
    LET top30Regular == slice(regularMembers, TOP_COUNT)
        threshold == thresholdOf(regularMembers)
    IN [top30Regular |-> top30Regular,
        qualifiedSpecial |-> SelectSeq(specialMembers, LAMBDA m : beatsThreshold(m, threshold)),
        qualifiedProtected |-> protectedMembers,
        threshold |-> threshold]

determineQualified(regularMembers, specialMembers, protectedMembers) ==
    LET top30Regular == slice(regularMembers, TOP_COUNT)
        threshold == thresholdOf(top30Regular)
    IN [top30Regular |-> top30Regular,
        qualifiedSpecial |-> SelectSeq(specialMembers, LAMBDA m : beatsThreshold(m, threshold)),
        qualifiedProtected |-> protectedMembers,
        threshold |-> threshold]

\* ---------------------------------------- role_manager: who is active
filterEligibleUsers(g, fetchFails, mentionCount) ==
    LET ms == fetchedMembers(g, fetchFails, mentionCount)
        all == [i \in 1..Len(ms) |-> userData(ms[i], g)]
    IN sortByMentions(SelectSeq(all,
           LAMBDA d : ~(hasSpecialRole(d.member) \/ hasProtectedRole(d.member))))

getActiveSpecialRoles(g, fetchFails, mentionCount) ==
    LET ms == SelectSeq(mentionCount, LAMBDA e : e.userId \notin fetchFails)
        all == [i \in 1..Len(ms) |-> userData(ms[i], g)]
    IN SelectSeq(all, LAMBDA d : hasSpecialRole(d.member))

\* --------------------------------------------------------- manageRoles
\* The state the two loops of manageRoles work on: the loaded grace store,
\* the directory, the lists of logData and the role calls made so far.
loopStart(g, grace) ==
    [grace |-> grace, guild |-> g,
     rolesAdded |-> <<>>, rolesRemoved |-> <<>>, graceUsers |-> <<>>,
     protectedSkipped |-> <<>>,
     addCalls |-> <<>>, removeCalls |-> <<>>, threw |-> FALSE]

\* if (graceTracking[user.userId]) delete graceTracking[user.userId]
clearGrace(grace, userId) ==
    IF userId \in DOMAIN grace THEN graceDelete(grace, userId) ELSE grace

\* The add loop without the clearing of the grace record.
addQualified_keepGrace(st, user, addFails) ==
    IF HIERARCH_ROLE_ID \notin user.member
    THEN IF user.userId \in addFails
         THEN [st EXCEPT !.addCalls = Append(@, user.userId), !.threw = TRUE]
         ELSE [st EXCEPT
                 !.addCalls = Append(@, user.userId),
                 !.guild[user.userId] = @ \cup {HIERARCH_ROLE_ID},
                 !.rolesAdded = Append(@, [userId |-> user.userId,
                                           mentions |-> user.mentionCount])]
    ELSE st

\* The add loop without the test that the user lacks the role.
addQualified_always(st, user, addFails) ==
    LET cleared == [st EXCEPT !.grace = clearGrace(st.grace, user.userId)]
    IN IF user.userId \in addFails
       THEN [cleared EXCEPT !.addCalls = Append(@, user.userId), !.threw = TRUE]
       ELSE [cleared EXCEPT
               !.addCalls = Append(@, user.userId),
               !.guild[user.userId] = @ \cup {HIERARCH_ROLE_ID},
               !.rolesAdded = Append(@, [userId |-> user.userId,
                                         mentions |-> user.mentionCount])]

\* part_000, one pass of the loop over allQualified.  A rejected roles.add
\* throws out of manageRoles.
addQualified(st, user, addFails) ==
    LET cleared == [st EXCEPT !.grace = clearGrace(st.grace, user.userId)]
    IN IF HIERARCH_ROLE_ID \notin user.member
       THEN IF user.userId \in addFails
            THEN [cleared EXCEPT !.addCalls = Append(@, user.userId), !.threw = TRUE]
            ELSE [cleared EXCEPT
                    !.addCalls = Append(@, user.userId),
                    !.guild[user.userId] = @ \cup {HIERARCH_ROLE_ID},
                    !.rolesAdded = Append(@, [userId |-> user.userId,
                                              mentions |-> user.mentionCount])]
       ELSE cleared

RECURSIVE addLoop(_, _, _)
addLoop(st, users, addFails) ==
    IF users = <<>> \/ st.threw THEN st
    ELSE addLoop(addQualified(st, Head(users), addFails), Tail(users), addFails)

\* The removal as a dry run: logged, the role left in place.
removeRole_dry(st, memberId, entry, removeFails) ==
    IF memberId \in removeFails
    THEN [st EXCEPT !.removeCalls = Append(@, memberId)]
    ELSE [st EXCEPT
            !.removeCalls = Append(@, memberId),
            !.rolesRemoved = Append(@, entry)]

\* part_000: member.roles.remove, then the entry of rolesRemoved.  A rejected
\* call throws to the catch of the loop body, which leaves the user unchanged.
removeRole(st, memberId, entry, removeFails) ==
    IF memberId \in removeFails
    THEN [st EXCEPT !.removeCalls = Append(@, memberId)]
    ELSE [st EXCEPT
            !.removeCalls = Append(@, memberId),
            !.guild[memberId] = @ \ {HIERARCH_ROLE_ID},
            !.rolesRemoved = Append(@, entry)]

\* The grace period logic with the expiry one run early (weeksOut >= G).
graceStep_early(st, memberId, G, removeFails) ==
    IF G > 0
    THEN IF memberId \notin DOMAIN st.grace
         THEN [st EXCEPT
                 !.grace = gracePut(@, memberId, 1),
                 !.graceUsers = Append(@, [userId |-> memberId, weeksOut |-> 1,
                                           weeksRemaining |-> G - 1])]
         ELSE LET weeksOut == st.grace[memberId] + 1
                  counted == [st EXCEPT !.grace = gracePut(@, memberId, weeksOut)]
              IN IF weeksOut >= G
                 THEN LET removed == removeRole(counted, memberId,
                                         [userId |-> memberId,
                                          reason |-> "Grace period expired",
                                          weeksOut |-> weeksOut], removeFails)
                      IN IF memberId \in removeFails THEN removed
                         ELSE [removed EXCEPT !.grace = graceDelete(@, memberId)]
                 ELSE [counted EXCEPT
                         !.graceUsers = Append(@, [userId |-> memberId,
                                                   weeksOut |-> weeksOut,
                                                   weeksRemaining |-> G - weeksOut])]
    ELSE removeRole(st, memberId, [userId |-> memberId, reason |-> "Not qualified"],
                    removeFails)

\* The grace period logic with the expiry one run late (weeksOut > G + 1).
graceStep_late(st, memberId, G, removeFails) ==
    IF G > 0
    THEN IF memberId \notin DOMAIN st.grace
         THEN [st EXCEPT
                 !.grace = gracePut(@, memberId, 1),
                 !.graceUsers = Append(@, [userId |-> memberId, weeksOut |-> 1,
                                           weeksRemaining |-> G - 1])]
         ELSE LET weeksOut == st.grace[memberId] + 1
                  counted == [st EXCEPT !.grace = gracePut(@, memberId, weeksOut)]
              IN IF weeksOut > G + 1
                 THEN LET removed == removeRole(counted, memberId,
                                         [userId |-> memberId,
                                          reason |-> "Grace period expired",
                                          weeksOut |-> weeksOut], removeFails)
                      IN IF memberId \in removeFails THEN removed
                         ELSE [removed EXCEPT !.grace = graceDelete(@, memberId)]
                 ELSE [counted EXCEPT
                         !.graceUsers = Append(@, [userId |-> memberId,
                                                   weeksOut |-> weeksOut,
                                                   weeksRemaining |-> G - weeksOut])]
    ELSE removeRole(st, memberId, [userId |-> memberId, reason |-> "Not qualified"],
                    removeFails)

\* The grace period logic with a grace length of 0 counted like any other
\* (G >= 0).
graceStep_graceAtZero(st, memberId, G, removeFails) ==
    IF G >= 0
    THEN IF memberId \notin DOMAIN st.grace
         THEN [st EXCEPT
                 !.grace = gracePut(@, memberId, 1),
                 !.graceUsers = Append(@, [userId |-> memberId, weeksOut |-> 1,
                                           weeksRemaining |-> G - 1])]
         ELSE LET weeksOut == st.grace[memberId] + 1
                  counted == [st EXCEPT !.grace = gracePut(@, memberId, weeksOut)]
              IN IF weeksOut > G
                 THEN LET removed == removeRole(counted, memberId,
                                         [userId |-> memberId,
                                          reason |-> "Grace period expired",
                                          weeksOut |-> weeksOut], removeFails)
                      IN IF memberId \in removeFails THEN removed
                         ELSE [removed EXCEPT !.grace = graceDelete(@, memberId)]
                 ELSE [counted EXCEPT
                         !.graceUsers = Append(@, [userId |-> memberId,
                                                   weeksOut |-> weeksOut,
                                                   weeksRemaining |-> G - weeksOut])]
    ELSE removeRole(st, memberId, [userId |-> memberId, reason |-> "Not qualified"],
                    removeFails)

\* The grace period logic of one unqualified, unprotected role-holder
\* (part_000).
graceStep(st, memberId, G, removeFails) ==
    IF G > 0
    THEN IF memberId \notin DOMAIN st.grace
         THEN [st EXCEPT
                 !.grace = gracePut(@, memberId, 1),
                 !.graceUsers = Append(@, [userId |-> memberId, weeksOut |-> 1,
                                           weeksRemaining |-> G - 1])]
         ELSE LET weeksOut == st.grace[memberId] + 1
                  counted == [st EXCEPT !.grace = gracePut(@, memberId, weeksOut)]
              IN IF weeksOut > G
                 THEN LET removed == removeRole(counted, memberId,
                                         [userId |-> memberId,
                                          reason |-> "Grace period expired",
                                          weeksOut |-> weeksOut], removeFails)
                      IN IF memberId \in removeFails THEN removed
                         ELSE [removed EXCEPT !.grace = graceDelete(@, memberId)]
                 ELSE [counted EXCEPT
                         !.graceUsers = Append(@, [userId |-> memberId,
                                                   weeksOut |-> weeksOut,
                                                   weeksRemaining |-> G - weeksOut])]
    ELSE removeRole(st, memberId, [userId |-> memberId, reason |-> "Not qualified"],
                    removeFails)

\* The loop body without the test of the protected roles.
handleHolder_unprotected(st, memberId, qualifiedUserIds, faults, G) ==
    IF memberId \in qualifiedUserIds THEN st
    ELSE IF memberId \in faults.fetchFails THEN st
    ELSE graceStep(st, memberId, G, faults.removeFails)

\* The loop body without the test of qualifiedUserIds.
handleHolder_requalify(st, memberId, qualifiedUserIds, faults, G) ==
    IF memberId \in faults.fetchFails THEN st
    ELSE IF hasProtectedRole(st.guild[memberId]) THEN st
    ELSE graceStep(st, memberId, G, faults.removeFails)

\* The loop body going on after a failed lookup of the member.
handleHolder_unfetched(st, memberId, qualifiedUserIds, faults, G) ==
    IF memberId \in qualifiedUserIds THEN st
    ELSE IF hasProtectedRole(st.guild[memberId]) THEN st
    ELSE graceStep(st, memberId, G, faults.removeFails)

\* part_000, one pass of the loop over hierarchRole.members.
handleHolder(st, memberId, qualifiedUserIds, faults, G) ==
    IF memberId \in qualifiedUserIds THEN st
    ELSE IF memberId \in faults.fetchFails THEN st
    ELSE IF hasProtectedRole(st.guild[memberId]) THEN st
    ELSE graceStep(st, memberId, G, faults.removeFails)

RECURSIVE holderLoop(_, _, _, _, _)
holderLoop(st, members, qualifiedUserIds, faults, G) ==
    IF members = <<>> THEN st
    ELSE holderLoop(handleHolder(st, Head(members), qualifiedUserIds, faults, G),
                    Tail(members), qualifiedUserIds, faults, G)

\* logData.top30: rank, user and mentions of each of the top regular members.
top30Log(top30Regular) ==
    [i \in 1..Len(top30Regular) |->
        [rank |-> i, userId |-> top30Regular[i].userId,
         mentions |-> top30Regular[i].mentionCount]]

\* logData.specialRoles and logData.protected.
mentionsLog(users) ==
    [i \in 1..Len(users) |->
        [userId |-> users[i].userId, mentions |-> users[i].mentionCount]]

\* What one call of manageRoles leaves behind: how it ended ("completed",
\* "role_missing" when it returned early, "threw"), the logData it saved and
\* returned, the grace file, the directory and the role calls it made.
ended(outcome, logData, graceOut, st) ==
    [outcome |-> outcome, logData |-> logData, graceFile |-> graceOut,
     guild |-> st.guild, addCalls |-> st.addCalls, removeCalls |-> st.removeCalls]

\* manageRoles with the Hierarch role looked up after the add loop.
manageRoles_lateFetch(g, grace, q, faults, G) ==
    LET qualifiedUserIds == Range(userIds(q.top30Regular))
                            \cup Range(userIds(q.qualifiedSpecial))
                            \cup Range(userIds(q.qualifiedProtected))
        allQualified == q.top30Regular \o q.qualifiedSpecial \o q.qualifiedProtected
        start == loopStart(g, grace)
        added == addLoop(start, allQualified, faults.addFails)
        done == holderLoop(added, ascending(holders(added.guild)), qualifiedUserIds, faults, G)
    IN IF added.threw THEN ended("threw", "undefined", grace, added)
       ELSE IF ~faults.roleFound THEN ended("role_missing", "undefined", grace, added)
       ELSE ended("completed",
                  [top30 |-> top30Log(q.top30Regular),
                   specialRoles |-> mentionsLog(q.qualifiedSpecial),
                   protected |-> mentionsLog(q.qualifiedProtected),
                   rolesAdded |-> done.rolesAdded,
                   rolesRemoved |-> done.rolesRemoved,
                   graceUsers |-> done.graceUsers],
                  done.grace, done)

\* manageRoles of part_000.
manageRoles(g, grace, q, faults, G) ==
    LET qualifiedUserIds == Range(userIds(q.top30Regular))
                            \cup Range(userIds(q.qualifiedSpecial))
                            \cup Range(userIds(q.qualifiedProtected))
        allQualified == q.top30Regular \o q.qualifiedSpecial \o q.qualifiedProtected
        start == loopStart(g, grace)
        added == addLoop(start, allQualified, faults.addFails)
        done == holderLoop(added, ascending(holders(added.guild)), qualifiedUserIds, faults, G)
    IN IF ~faults.roleFound THEN ended("role_missing", "undefined", grace, start)
       ELSE IF added.threw THEN ended("threw", "undefined", grace, added)
       ELSE ended("completed",
                  [top30 |-> top30Log(q.top30Regular),
                   specialRoles |-> mentionsLog(q.qualifiedSpecial),
                   protected |-> mentionsLog(q.qualifiedProtected),
                   rolesAdded |-> done.rolesAdded,
                   rolesRemoved |-> done.rolesRemoved,
                   graceUsers |-> done.graceUsers],
                  done.grace, done)

\* role_manager, one pass of the loop over top30Regular: the role is not added
\* (the call is commented out), the user is logged as added.
addTop30_rm(st, user) ==
    LET cleared == [st EXCEPT !.grace = clearGrace(st.grace, user.userId)]
    IN IF HIERARCH_ROLE_ID \notin user.member
       THEN [cleared EXCEPT
               !.rolesAdded = Append(@, [userId |-> user.userId,
                                         mentions |-> user.mentionCount])]
       ELSE cleared

RECURSIVE addLoop_rm(_, _)
addLoop_rm(st, users) ==
    IF users = <<>> THEN st
    ELSE addLoop_rm(addTop30_rm(st, Head(users)), Tail(users))

\* role_manager: the loop that clears the grace of the active special members.
RECURSIVE clearLoop_rm(_, _)
clearLoop_rm(st, users) ==
    IF users = <<>> THEN st
    ELSE clearLoop_rm([st EXCEPT !.grace = clearGrace(@, Head(users).userId)], Tail(users))

\* role_manager: the grace period logic; no role is removed (the calls are
\* commented out).
graceStep_rm(st, memberId, G) ==
    IF G > 0
    THEN IF memberId \notin DOMAIN st.grace
         THEN [st EXCEPT
                 !.grace = gracePut(@, memberId, 1),
                 !.graceUsers = Append(@, [userId |-> memberId, weeksOut |-> 1,
                                           weeksRemaining |-> G - 1])]
         ELSE LET weeksOut == st.grace[memberId] + 1
              IN IF weeksOut > G
                 THEN [st EXCEPT
                         !.rolesRemoved = Append(@, [userId |-> memberId,
                                                     reason |-> "Grace period expired",
                                                     weeksOut |-> weeksOut]),
                         !.grace = graceDelete(@, memberId)]
                 ELSE [st EXCEPT
                         !.grace = gracePut(@, memberId, weeksOut),
                         !.graceUsers = Append(@, [userId |-> memberId,
                                                   weeksOut |-> weeksOut,
                                                   weeksRemaining |-> G - weeksOut])]
    ELSE [st EXCEPT
            !.rolesRemoved = Append(@, [userId |-> memberId, reason |-> "Not in top 30"])]

\* role_manager, one pass of the loop over hierarchRole.members.
handleHolder_rm(st, memberId, activeUsers, faults, G) ==
    IF memberId \in activeUsers THEN st
    ELSE IF memberId \in faults.fetchFails THEN st
    ELSE IF hasProtectedRole(st.guild[memberId])
         THEN [st EXCEPT !.protectedSkipped = Append(@, [userId |-> memberId])]
    ELSE graceStep_rm(st, memberId, G)

RECURSIVE holderLoop_rm(_, _, _, _, _)
holderLoop_rm(st, members, activeUsers, faults, G) ==
    IF members = <<>> THEN st
    ELSE holderLoop_rm(handleHolder_rm(st, Head(members), activeUsers, faults, G),
                       Tail(members), activeUsers, faults, G)

\* manageRoles of role_manager.
manageRoles_rm(g, grace, top30Regular, activeSpecialRoles, faults, G) ==
    LET activeUsers == Range(userIds(top30Regular)) \cup Range(userIds(activeSpecialRoles))
        start == loopStart(g, grace)
        added == clearLoop_rm(addLoop_rm(start, top30Regular), activeSpecialRoles)
        done == holderLoop_rm(added, ascending(holders(g)), activeUsers, faults, G)
    IN IF ~faults.roleFound THEN ended("role_missing", "undefined", grace, start)
       ELSE ended("completed",
                  [top30 |-> top30Log(top30Regular),
                   specialRoles |-> mentionsLog(activeSpecialRoles),
                   rolesAdded |-> done.rolesAdded,
                   rolesRemoved |-> done.rolesRemoved,
                   graceUsers |-> done.graceUsers,
                   protectedSkipped |-> done.protectedSkipped],
                  done.grace, done)

\* ------------------------------------------------------ the ready handler
\* part_000: categorize, qualify, manage; a throw ends the process with exit
\* code 1, everything else with "completed successfully" and exit code 0.
ready(g, grace, mentionCount, faults) ==
    LET c == categorizeMembers(g, faults.fetchFails, mentionCount)
        q == determineQualified(c.regularMembers, c.specialMembers, c.protectedMembers)
        r == manageRoles(g, grace, q, faults, GRACE_PERIOD_WEEKS)
    IN [qualified |-> q, run |-> r, exitCode |-> IF r.outcome = "threw" THEN 1 ELSE 0]

\* role_manager: the same handler.
ready_rm(g, grace, mentionCount, faults) ==
    LET eligibleUsers == filterEligibleUsers(g, faults.fetchFails, mentionCount)
        top30Regular == slice(eligibleUsers, TOP_COUNT)
        activeSpecialRoles == getActiveSpecialRoles(g, faults.fetchFails, mentionCount)
        r == manageRoles_rm(g, grace, top30Regular, activeSpecialRoles, faults,
                            GRACE_PERIOD_WEEKS)
    IN [qualified |-> [top30Regular |-> top30Regular,
                       activeSpecialRoles |-> activeSpecialRoles],
        run |-> r, exitCode |-> 0]

\* ------------------------------------------------------------ the inputs
\* The mention maps scanChannelsForMentions can return: entries in the order
\* in which the users were first met, each user once, each count at least 1.
Orders ==
    {o \in UNION {[1..k -> Users] : k \in 0..NumUsers} :
        \A i, j \in 1..Len(o) : i # j => o[i] # o[j]}

MentionMaps ==
    UNION {{[i \in 1..Len(o) |-> [userId |-> o[i], count |-> c[i]]] :
                c \in [1..Len(o) -> 1..MaxCount]} : o \in Orders}

\* What the API rejects in one run: the fetch of the Hierarch role, the fetch
\* of a member, roles.add and roles.remove for a member.
FaultChoices ==
    {f \in [roleFound : BOOLEAN, fetchFails : SUBSET Users,
            addFails : SUBSET Users, removeFails : SUBSET Users] :
        (IF f.roleFound THEN 0 ELSE 1) + Cardinality(f.fetchFails)
          + Cardinality(f.addFails) + Cardinality(f.removeFails) <= MaxFaults}

NoFaults == [roleFound |-> TRUE, fetchFails |-> {}, addFails |-> {}, removeFails |-> {}]

NoInput == [mentionCount |-> <<>>, faults |-> NoFaults]
NoBefore == [graceFile |-> EmptyGrace, guild |-> [u \in Users |-> {}]]
NoQualified == "none"
NoResult == [outcome |-> "none", exitCode |-> 0, logData |-> "undefined",
             addCalls |-> <<>>, removeCalls |-> <<>>]

\* The processes that may run the program at the same time.
Procs == 1..NumProcs

\* A process that has not started its run.
NotStarted ==
    [phase |-> "idle", grace |-> EmptyGrace, mentionCount |-> <<>>,
     qualified |-> NoQualified]

NoneInFlight == [p \in Procs |-> NotStarted]

\* ------------------------------------------------------------ history
\* The ids a run held qualified: qualifiedUserIds of part_000, activeUsers of
\* role_manager.
qualifiedIdsOf(prog, q) ==
    IF prog = "part_000"
    THEN Range(userIds(q.top30Regular)) \cup Range(userIds(q.qualifiedSpecial))
         \cup Range(userIds(q.qualifiedProtected))
    ELSE Range(userIds(q.top30Regular)) \cup Range(userIds(q.activeSpecialRoles))

\* A run put u through the grace period logic with every call about u
\* answered: it completed, u held the role, was not qualified, could be
\* fetched, had no protected role, and no removal of u was rejected.
disqualifiedRun(u, g, f, r) ==
    /\ r.run.outcome = "completed"
    /\ HIERARCH_ROLE_ID \in g[u]
    /\ u \notin qualifiedIdsOf(program, r.qualified)
    /\ u \notin f.fetchFails
    /\ u \notin f.removeFails
    /\ ~hasProtectedRole(g[u])

\* The consecutive disqualified runs of u, counted from one that found no
\* grace record of u; it starts again after the run past the grace length.
nextStreak(u, g, grace, f, r) ==
    IF ~disqualifiedRun(u, g, f, r) THEN 0
    ELSE IF streak[u] \in 1..GRACE_PERIOD_WEEKS THEN streak[u] + 1
    ELSE IF u \notin DOMAIN grace THEN 1
    ELSE 0

\* ------------------------------------------------------------ actions
Init ==
    /\ program \in Programs
    /\ TOP_COUNT \in 1..MaxTop
    /\ GRACE_PERIOD_WEEKS \in 0..MaxGrace
    /\ guild \in [Users -> SUBSET RoleIds]
    /\ graceFile = EmptyGrace
    /\ input = NoInput
    /\ before = NoBefore
    /\ qualified = NoQualified
    /\ result = NoResult
    /\ streak = [u \in Users |-> 0]
    /\ graceFileState = "valid"
    /\ inflight = NoneInFlight
    /\ sinceQualified = [u \in Users |-> 0]
    /\ outRuns = [u \in Users |-> 0]
    /\ channels = <<>>

\* The handler of the program the behaviour runs.
readyOf(g, grace, mentionCount, faults) ==
    IF program = "part_000" THEN ready(g, grace, mentionCount, faults)
    ELSE ready_rm(g, grace, mentionCount, faults)

\* One run of the program, the whole 'ready' handler, on the store it loaded
\* and a mention map, with the API answering as faults says.
RunOn(grace, mentionCount, faults) ==
    /\ input' = [mentionCount |-> mentionCount, faults |-> faults]
    /\ before' = [graceFile |-> grace, guild |-> guild]
    /\ \E r \in {readyOf(guild, grace, mentionCount, faults)} :
          /\ qualified' = r.qualified
          /\ result' = [outcome |-> r.run.outcome, exitCode |-> r.exitCode,
                        logData |-> r.run.logData,
                        addCalls |-> r.run.addCalls, removeCalls |-> r.run.removeCalls]
          /\ graceFile' = r.run.graceFile
          /\ guild' = r.run.guild
          /\ streak' = [u \in Users |-> nextStreak(u, guild, grace, faults, r)]
    /\ \A u \in DOMAIN graceFile' : graceFile'[u] <= GRACE_PERIOD_WEEKS + MaxWeeksOver
    /\ UNCHANGED <<program, TOP_COUNT, GRACE_PERIOD_WEEKS>>

\* The run of a process that reads a well-formed grace file.
RunWith(mentionCount, faults) == RunOn(graceFile, mentionCount, faults)

\* A run of part_000.
Run ==
    /\ program = "part_000"
    /\ result.outcome = "none"
    /\ UNCHANGED aside
    /\ \E mentionCount \in MentionMaps, faults \in FaultChoices :
          RunWith(mentionCount, faults)

\* A run of role_manager, which calls neither roles.add nor roles.remove.
Run_rm ==
    /\ program = "role_manager"
    /\ result.outcome = "none"
    /\ UNCHANGED aside
    /\ \E mentionCount \in MentionMaps, faults \in FaultChoices :
          /\ faults.addFails = {} /\ faults.removeFails = {}
          /\ RunWith(mentionCount, faults)

\* The program is started again at once: the scan finds the same mentions and
\* the API answers as before.
Rerun ==
    /\ result.outcome # "none"
    /\ UNCHANGED aside
    /\ RunWith(input.mentionCount, input.faults)

\* The record of the last run is put away (history only: the program keeps
\* nothing of a run but the grace file).
Archive ==
    /\ result.outcome # "none"
    /\ input' = NoInput
    /\ before' = NoBefore
    /\ qualified' = NoQualified
    /\ result' = NoResult
    /\ UNCHANGED <<program, TOP_COUNT, GRACE_PERIOD_WEEKS, guild, graceFile, streak>>
    /\ UNCHANGED aside

\* Between two runs somebody gives a role to a member or takes one away.
GuildUpdate(u, role) ==
    /\ result.outcome = "none"
    /\ guild' = [guild EXCEPT ![u] = IF role \in @ THEN @ \ {role} ELSE @ \cup {role}]
    /\ UNCHANGED <<program, TOP_COUNT, GRACE_PERIOD_WEEKS, graceFile,
                   input, before, qualified, result, streak>>
    /\ UNCHANGED aside

Next ==
    \/ Run
    \/ Run_rm
    \/ Rerun
    \/ Archive
    \/ \E u \in Users, role \in RoleIds : GuildUpdate(u, role)

Spec == Init /\ [][Next]_vars

\* ------------------------------------- the qualification steps on their own
\* The directory and the mentions of the worked example: regular members 1..4
\* with 50, 40, 40 and 10 mentions, special members 5 and 6 with 41 and 40.
ScenarioCounts == <<50, 40, 40, 10, 41, 40>>

ScenarioGuild ==
    [u \in DOMAIN ScenarioCounts |->
        IF u <= 4 THEN {MEMBER_ROLE_ID} ELSE {MEMBER_ROLE_ID} \cup SPECIAL_ROLES_IDS]

\* The mention maps of the example: the six entries in every order of first
\* appearance.
ScenarioMaps ==
    {[i \in DOMAIN ScenarioCounts |-> [userId |-> p[i], count |-> ScenarioCounts[p[i]]]] :
        p \in Permutations(DOMAIN ScenarioCounts)}

\* Steps 2 and 3 of the 'ready' handler of part_000: categorizeMembers, then
\* determineQualified.
QualifyOn(mentionCount, faults) ==
    /\ input' = [mentionCount |-> mentionCount, faults |-> faults]
    /\ before' = [graceFile |-> graceFile, guild |-> guild]
    /\ LET c == categorizeMembers(guild, faults.fetchFails, mentionCount)
       IN qualified' = determineQualified(c.regularMembers, c.specialMembers,
                                          c.protectedMembers)
    /\ result' = [result EXCEPT !.outcome = "qualified"]
    /\ UNCHANGED <<program, TOP_COUNT, GRACE_PERIOD_WEEKS, guild, graceFile, streak>>
    /\ UNCHANGED aside

\* ... on every mention map and every directory of the users,
Qualify ==
    /\ result.outcome = "none"
    /\ DOMAIN guild = Users
    /\ \E mentionCount \in MentionMaps, faults \in FaultChoices :
          /\ faults.roleFound /\ faults.addFails = {} /\ faults.removeFails = {}
          /\ QualifyOn(mentionCount, faults)

\* ... and on the worked example.
QualifyScenario ==
    /\ result.outcome = "none"
    /\ guild = ScenarioGuild
    /\ \E mentionCount \in ScenarioMaps : QualifyOn(mentionCount, NoFaults)

InitQualify ==
    /\ program = "part_000"
    /\ TOP_COUNT \in 1..MaxTop
    /\ GRACE_PERIOD_WEEKS = 0
    /\ guild \in [Users -> SUBSET RoleIds] \cup {ScenarioGuild}
    /\ graceFile = EmptyGrace
    /\ input = NoInput
    /\ before = NoBefore
    /\ qualified = NoQualified
    /\ result = NoResult
    /\ streak = [u \in Users |-> 0]
    /\ graceFileState = "valid"
    /\ inflight = NoneInFlight
    /\ sinceQualified = [u \in Users |-> 0]
    /\ outRuns = [u \in Users |-> 0]
    /\ channels = <<>>

NextQualify == Qualify \/ QualifyScenario

SpecQualify == InitQualify /\ [][NextQualify]_vars

\* ------------------------------------------- the runs with rejected calls
\* What the API may reject in one run, at most n calls.
FaultsUpTo(n) ==
    {f \in [roleFound : BOOLEAN, fetchFails : SUBSET Users,
            addFails : SUBSET Users, removeFails : SUBSET Users] :
        (IF f.roleFound THEN 0 ELSE 1) + Cardinality(f.fetchFails)
          + Cardinality(f.addFails) + Cardinality(f.removeFails) <= n}

\* The runs since u was last in the qualified set, this one included, every
\* run counted however it ended; counted up to the grace length plus one.
nextSinceQualified(u, q) ==
    IF u \in qualifiedIdsOf(program, q) THEN 0
    ELSE Min(sinceQualified[u] + 1, GRACE_PERIOD_WEEKS + 1)

\* The rejected calls are calls the run makes: a member is fetched when
\* mentioned or holding the role, roles.add and roles.remove are rejected
\* where the run calls them.
rejectsCallsMade(mentionCount, faults) ==
    /\ faults.fetchFails \subseteq
          {mentionCount[i].userId : i \in DOMAIN mentionCount} \cup holders(guild)
    /\ faults.addFails \subseteq Range(result'.addCalls)
    /\ faults.removeFails \subseteq Range(result'.removeCalls)

\* A run of part_000 in which the API rejects calls.
RunFaulty ==
    /\ program = "part_000"
    /\ result.outcome = "none"
    /\ \E mentionCount \in MentionMaps, faults \in FaultsUpTo(MaxRejected) :
          /\ RunWith(mentionCount, faults)
          /\ rejectsCallsMade(mentionCount, faults)
    /\ UNCHANGED aside

\* A run of role_manager in which the API rejects calls.
RunFaulty_rm ==
    /\ program = "role_manager"
    /\ result.outcome = "none"
    /\ \E mentionCount \in MentionMaps, faults \in FaultsUpTo(MaxRejected) :
          /\ faults.addFails = {} /\ faults.removeFails = {}
          /\ RunWith(mentionCount, faults)
          /\ rejectsCallsMade(mentionCount, faults)
    /\ UNCHANGED aside

InitFaults == Init /\ GRACE_PERIOD_WEEKS <= MaxFaultGrace

NextFaults ==
    \/ RunFaulty
    \/ RunFaulty_rm
    \/ Archive
    \/ \E u \in Users, role \in RoleIds : GuildUpdate(u, role)

SpecFaults == InitFaults /\ [][NextFaults]_vars

\* ------------------------------------ the runs of part_000 with their history
\* The rejections that abort a run of part_000: the Hierarch role is not
\* found, or roles.add is rejected.
AbortFaults ==
    {f \in FaultsUpTo(MaxRejected) : f.fetchFails = {} /\ f.removeFails = {}}

\* A run of part_000, to its end or aborted, counted in the history of every
\* user.
RunCounted ==
    /\ result.outcome = "none"
    /\ \E mentionCount \in MentionMaps, faults \in AbortFaults :
          /\ RunWith(mentionCount, faults)
          /\ rejectsCallsMade(mentionCount, faults)
    /\ sinceQualified' = [u \in Users |-> nextSinceQualified(u, qualified')]
    /\ UNCHANGED <<graceFileState, inflight, outRuns, channels>>

InitHistory ==
    /\ Init
    /\ program = "part_000"
    /\ GRACE_PERIOD_WEEKS \in 1..MaxFaultGrace

NextHistory ==
    \/ RunCounted
    \/ Archive
    \/ \E u \in Users, role \in RoleIds : GuildUpdate(u, role)

SpecHistory == InitHistory /\ [][NextHistory]_vars

\* ------------------------------------------------- runs, with their tally
\* The run just made, as disqualifiedRun reads it.
runMade == [qualified |-> qualified', run |-> [outcome |-> result'.outcome]]

\* The consecutive completed runs, this one included, that found u an
\* unqualified, unprotected role-holder and put no removal of u into
\* rolesRemoved.
nextOutRuns(u, faults) ==
    IF /\ disqualifiedRun(u, guild, faults, runMade)
       /\ \A i \in DOMAIN result'.logData.rolesRemoved :
             result'.logData.rolesRemoved[i].userId # u
    THEN Min(outRuns[u] + 1, GRACE_PERIOD_WEEKS + 1)
    ELSE 0

\* A run of either program, counted in the tally of every user.
RunTallied ==
    /\ result.outcome = "none"
    /\ \E mentionCount \in MentionMaps, faults \in FaultChoices :
          /\ program = "role_manager" => faults.addFails = {} /\ faults.removeFails = {}
          /\ RunWith(mentionCount, faults)
          /\ outRuns' = [u \in Users |-> nextOutRuns(u, faults)]
    /\ UNCHANGED <<graceFileState, inflight, sinceQualified, channels>>

InitTally == Init /\ GRACE_PERIOD_WEEKS > 0

NextTally ==
    \/ RunTallied
    \/ Archive
    \/ \E u \in Users, role \in RoleIds : GuildUpdate(u, role)

SpecTally == InitTally /\ [][NextTally]_vars

\* ------------------------------------------------------------ the scan
\* mentionCount.set(user.id, (mentionCount.get(user.id) || 0) + 1): a Map
\* keeps its keys in the order of their first insertion.
countMention(mentionCount, id) ==
    IF \E i \in DOMAIN mentionCount : mentionCount[i].userId = id
    THEN [i \in DOMAIN mentionCount |->
            IF mentionCount[i].userId = id
            THEN [mentionCount[i] EXCEPT !.count = @ + 1]
            ELSE mentionCount[i]]
    ELSE Append(mentionCount, [userId |-> id, count |-> 1])

\* The mentions of the messages of one channel, in the order met.
RECURSIVE scanChannel(_, _)
scanChannel(mentionCount, mentions) ==
    IF mentions = <<>> THEN mentionCount
    ELSE scanChannel(countMention(mentionCount, Head(mentions)), Tail(mentions))

\* The loop over CHANNELS_IDS: a channel that is null or not text-based is
\* skipped, a rejected fetch throws out of the scan.
RECURSIVE scanFrom(_, _)
scanFrom(mentionCount, chs) ==
    IF chs = <<>> THEN [threw |-> FALSE, mentionCount |-> mentionCount]
    ELSE IF Head(chs).status = "skipped" THEN scanFrom(mentionCount, Tail(chs))
    ELSE IF Head(chs).status = "throws" THEN [threw |-> TRUE, mentionCount |-> mentionCount]
    ELSE scanFrom(scanChannel(mentionCount, Head(chs).mentions), Tail(chs))

scanChannelsForMentions(chs) == scanFrom(<<>>, chs)

\* One tracked channel as the scan meets it: read to the end of the window
\* ("ok"), not found or not text-based ("skipped"), or a fetch rejected
\* ("throws"); the mentions are those of its messages inside the window.
ChannelStates ==
    {c \in [status : {"ok", "skipped", "throws"},
            mentions : UNION {[1..k -> Users] : k \in 0..MaxMentions}] :
        c.status = "throws" => c.mentions = <<>>}

ChannelLists == [1..NumChannels -> ChannelStates]

\* What the ready handler leaves when it throws before manageRoles changes
\* anything: the catch logs the error and exits with code 1.
Aborted ==
    [outcome |-> "threw", exitCode |-> 1, logData |-> "undefined",
     addCalls |-> <<>>, removeCalls |-> <<>>]

\* A run of part_000 from the scan on.
ScanRun ==
    /\ program = "part_000"
    /\ result.outcome = "none"
    /\ \E chs \in ChannelLists :
          /\ channels' = chs
          /\ \E s \in {scanChannelsForMentions(chs)} :
                IF s.threw
                THEN /\ input' = [mentionCount |-> s.mentionCount, faults |-> NoFaults]
                     /\ before' = [graceFile |-> graceFile, guild |-> guild]
                     /\ result' = Aborted
                     /\ UNCHANGED <<program, TOP_COUNT, GRACE_PERIOD_WEEKS, guild,
                                    graceFile, qualified, streak>>
                ELSE RunWith(s.mentionCount, NoFaults)
    /\ UNCHANGED <<graceFileState, inflight, sinceQualified, outRuns>>

InitScan == Init /\ program = "part_000" /\ GRACE_PERIOD_WEEKS <= MaxFaultGrace

NextScan == ScanRun

SpecScan == InitScan /\ [][NextScan]_vars

\* ------------------------------------------------------- the grace file
\* The load with a file that does not parse read as the empty store.
loadGrace_lenient(fileState, content) ==
    IF fileState = "missing" THEN [ok |-> TRUE, grace |-> EmptyGrace]
    ELSE IF fileState = "corrupt" THEN [ok |-> TRUE, grace |-> EmptyGrace]
    ELSE [ok |-> TRUE, grace |-> content]

\* if (fs.existsSync(GRACE_FILE)) graceTracking = JSON.parse(readFileSync):
\* no file gives the empty store, a file that does not parse throws.
loadGrace(fileState, content) ==
    IF fileState = "missing" THEN [ok |-> TRUE, grace |-> EmptyGrace]
    ELSE IF fileState = "corrupt" THEN [ok |-> FALSE, grace |-> EmptyGrace]
    ELSE [ok |-> TRUE, grace |-> content]

\* A run of part_000 on the grace file as it is on disk.  The write at the
\* end of manageRoles leaves a well-formed file.
RunFile ==
    /\ program = "part_000"
    /\ result.outcome = "none"
    /\ \E mentionCount \in MentionMaps, faults \in FaultChoices :
          \E l \in {loadGrace(graceFileState, graceFile)} :
             IF l.ok
             THEN /\ RunOn(l.grace, mentionCount, faults)
                  /\ graceFileState' = IF result'.outcome = "completed"
                                       THEN "valid" ELSE graceFileState
             ELSE /\ input' = [mentionCount |-> mentionCount, faults |-> faults]
                  /\ before' = [graceFile |-> graceFile, guild |-> guild]
                  /\ qualified' = ready(guild, EmptyGrace, mentionCount, faults).qualified
                  /\ result' = Aborted
                  /\ UNCHANGED <<program, TOP_COUNT, GRACE_PERIOD_WEEKS, guild,
                                 graceFile, streak, graceFileState>>
    /\ UNCHANGED <<inflight, sinceQualified, outRuns, channels>>

\* Between two runs the grace file is deleted or damaged; what it held is
\* lost.
FileDamaged(fileState) ==
    /\ result.outcome = "none"
    /\ graceFileState = "valid"
    /\ graceFileState' = fileState
    /\ graceFile' = EmptyGrace
    /\ UNCHANGED <<program, TOP_COUNT, GRACE_PERIOD_WEEKS, guild, input, before,
                   qualified, result, streak, inflight, sinceQualified, outRuns,
                   channels>>

InitFile ==
    /\ program = "part_000"
    /\ TOP_COUNT \in 1..MaxTop
    /\ GRACE_PERIOD_WEEKS \in 0..MaxFaultGrace
    /\ guild \in [Users -> SUBSET RoleIds]
    /\ graceFile = EmptyGrace
    /\ graceFileState \in {"valid", "missing", "corrupt"}
    /\ input = NoInput
    /\ before = NoBefore
    /\ qualified = NoQualified
    /\ result = NoResult
    /\ streak = [u \in Users |-> 0]
    /\ inflight = NoneInFlight
    /\ sinceQualified = [u \in Users |-> 0]
    /\ outRuns = [u \in Users |-> 0]
    /\ channels = <<>>

NextFile ==
    \/ RunFile
    \/ Archive
    \/ \E fileState \in {"missing", "corrupt"} : FileDamaged(fileState)
    \/ \E u \in Users, role \in RoleIds : GuildUpdate(u, role)

SpecFile == InitFile /\ [][NextFile]_vars

\* ----------------------------------- two processes on the same grace file
\* Process p runs part_000 up to the load of the grace file: the scan (both
\* processes, started together, see the same window), categorizeMembers,
\* determineQualified and the read of grace-tracking.json.
Load(p) ==
    /\ inflight[p].phase = "idle"
    /\ \E mentionCount \in MentionMaps :
          /\ \A o \in Procs :
                inflight[o].phase # "idle" => mentionCount = inflight[o].mentionCount
          /\ LET c == categorizeMembers(guild, {}, mentionCount)
                 q == determineQualified(c.regularMembers, c.specialMembers,
                                         c.protectedMembers)
             IN inflight' = [inflight EXCEPT
                               ![p] = [phase |-> "loaded", grace |-> graceFile,
                                       mentionCount |-> mentionCount, qualified |-> q]]
          /\ IF \A o \in Procs : inflight[o].phase = "idle"
             THEN /\ input' = [mentionCount |-> mentionCount, faults |-> NoFaults]
                  /\ before' = [graceFile |-> graceFile, guild |-> guild]
             ELSE UNCHANGED <<input, before>>
    /\ UNCHANGED <<program, TOP_COUNT, GRACE_PERIOD_WEEKS, guild, graceFile,
                   qualified, result, streak, graceFileState, sinceQualified,
                   outRuns, channels>>

\* Process p runs the rest of manageRoles on the store it loaded: the two
\* loops with their role calls, then the write of grace-tracking.json.
WriteBack(p) ==
    /\ inflight[p].phase = "loaded"
    /\ \E r \in {manageRoles(guild, inflight[p].grace, inflight[p].qualified,
                              NoFaults, GRACE_PERIOD_WEEKS)} :
          /\ qualified' = inflight[p].qualified
          /\ result' = [outcome |-> r.outcome, exitCode |-> 0, logData |-> r.logData,
                        addCalls |-> r.addCalls, removeCalls |-> r.removeCalls]
          /\ graceFile' = r.graceFile
          /\ guild' = r.guild
    /\ inflight' = [inflight EXCEPT ![p].phase = "done"]
    /\ UNCHANGED <<program, TOP_COUNT, GRACE_PERIOD_WEEKS, input, before,
                   streak, graceFileState, sinceQualified, outRuns,
                   channels>>

InitConcurrent == Init /\ program = "part_000"

NextConcurrent == \E p \in Procs : Load(p) \/ WriteBack(p)

SpecConcurrent == InitConcurrent /\ [][NextConcurrent]_vars

\* =============================================================== properties
\* The vocabulary of the properties, read off the inputs of the last run
\* rather than off what the run computed.

\* The user ids of a list of entries.
idsOf(seq) == {seq[i].userId : i \in DOMAIN seq}

\* No user has two entries in the list.
noDuplicates(seq) == \A i, j \in DOMAIN seq : seq[i].userId = seq[j].userId => i = j

\* The mentions of u in the window of the last run, 0 when u has no entry.
mentionsOf(u) ==
    LET at == {i \in DOMAIN input.mentionCount : input.mentionCount[i].userId = u}
    IN IF at = {} THEN 0 ELSE input.mentionCount[CHOOSE i \in at : TRUE].count

\* The evidenced users: mentioned in the window, found in the directory and
\* holding the Member role when the run started.
Evidenced ==
    {u \in DOMAIN before.guild :
        /\ mentionsOf(u) > 0
        /\ u \notin input.faults.fetchFails
        /\ MEMBER_ROLE_ID \in before.guild[u]}

\* The tiers: Protected before Special before Regular.
EvidencedProtected == {u \in Evidenced : hasProtectedRole(before.guild[u])}

EvidencedSpecial ==
    {u \in Evidenced : ~hasProtectedRole(before.guild[u]) /\ hasSpecialRole(before.guild[u])}

EvidencedRegular ==
    {u \in Evidenced : ~hasProtectedRole(before.guild[u]) /\ ~hasSpecialRole(before.guild[u])}

\* The qualification steps have run.
Qualified == result.outcome = "qualified"

\* The k-th largest mention count among the evidenced Regular users
\* (1 <= k <= their number).
RankCount(k) ==
    CHOOSE t \in {mentionsOf(u) : u \in EvidencedRegular} :
        /\ Cardinality({u \in EvidencedRegular : mentionsOf(u) > t}) < k
        /\ Cardinality({u \in EvidencedRegular : mentionsOf(u) >= t}) >= k

\* ------------------------------------------------------------------- C6
\* C6: qualifiedSpecial is exactly the evidenced Special users whose mention
\* count is strictly greater than the threshold, each once and with their own
\* count; a Special user whose count equals the threshold does not qualify.
C6_SpecialStrictlyAboveThreshold ==
    Qualified =>
        /\ idsOf(qualified.qualifiedSpecial)
             = {u \in EvidencedSpecial : mentionsOf(u) > qualified.threshold}
        /\ noDuplicates(qualified.qualifiedSpecial)
        /\ \A i \in DOMAIN qualified.qualifiedSpecial :
              qualified.qualifiedSpecial[i].mentionCount
                = mentionsOf(qualified.qualifiedSpecial[i].userId)

\* A Special user ties with a positive threshold and is left out, while
\* another Special user beats it and is in.
C6_Witness ==
    /\ Qualified
    /\ qualified.threshold > 0
    /\ \E u \in EvidencedSpecial :
          mentionsOf(u) = qualified.threshold /\ u \notin idsOf(qualified.qualifiedSpecial)
    /\ qualified.qualifiedSpecial # <<>>

\* ------------------------------------------------------------------- C7
\* C7 as stated: the threshold is the mention count of the lowest-ranked
\* qualified Regular user when at least N Regular users are evidenced, and 0
\* whenever fewer than N are (also when between 1 and N-1 are).
C7_ZeroBelowN ==
    Qualified =>
        IF Cardinality(EvidencedRegular) >= TOP_COUNT
        THEN qualified.threshold = RankCount(TOP_COUNT)
        ELSE qualified.threshold = 0

\* C7 as amended: the threshold is the mention count of the lowest-ranked
\* qualified Regular user whenever at least one Regular user is evidenced,
\* be they N or fewer (the min(N, r)-th largest count of the r evidenced), and
\* 0 only when no Regular user is evidenced.
C7_ThresholdIsLowestQualifiedCount ==
    Qualified =>
        qualified.threshold =
            IF EvidencedRegular = {} THEN 0
            ELSE RankCount(Min(TOP_COUNT, Cardinality(EvidencedRegular)))

\* Between 1 and N-1 Regular users are evidenced and the threshold is the
\* lowest count among them, not 0.
C7_Witness ==
    /\ Qualified
    /\ Cardinality(EvidencedRegular) \in 1..(TOP_COUNT - 1)
    /\ qualified.threshold > 0
    /\ \A u \in EvidencedRegular : mentionsOf(u) >= qualified.threshold

\* ------------------------------------------------------------------- C8
\* C8: the threshold is the mentionCount of the last element of
\* qualifiedRegular and is 0 exactly when qualifiedRegular is empty; with no
\* Regular evidence every evidenced Special user qualifies; with Regular
\* counts 50, 40, 40, 10 and N = 2 the threshold is 40, the first user and one
\* of the two with 40 qualify, the Special user with 41 qualifies and the one
\* with 40 does not.
C8_ThresholdIsLastQualified ==
    Qualified =>
        /\ qualified.top30Regular # <<>> =>
              qualified.threshold
                = qualified.top30Regular[Len(qualified.top30Regular)].mentionCount
        /\ qualified.threshold = 0 <=> qualified.top30Regular = <<>>
        /\ EvidencedRegular = {} => EvidencedSpecial \subseteq idsOf(qualified.qualifiedSpecial)
        /\ (before.guild = ScenarioGuild /\ TOP_COUNT = 2) =>
              /\ qualified.threshold = 40
              /\ idsOf(qualified.top30Regular) \in {{1, 2}, {1, 3}}
              /\ idsOf(qualified.qualifiedSpecial) = {5}

\* The worked example has been qualified with N = 2.
C8_Witness ==
    /\ Qualified
    /\ before.guild = ScenarioGuild
    /\ TOP_COUNT = 2
    /\ input.mentionCount[1].userId = 3
    /\ qualified.threshold = 40

\* ------------------------------------------------------------------- C9
\* C9: qualifiedRegular has min(N, number of evidenced Regular users)
\* elements, in non-increasing order of mentionCount, all of them evidenced
\* Regular users (each once, with their own count), and no evidenced Regular
\* user left out has more mentions than one that is in.
C9_TopRegular ==
    Qualified =>
        LET q == qualified.top30Regular
        IN /\ Len(q) = Min(TOP_COUNT, Cardinality(EvidencedRegular))
           /\ \A i, j \in DOMAIN q : i < j => q[i].mentionCount >= q[j].mentionCount
           /\ idsOf(q) \subseteq EvidencedRegular
           /\ noDuplicates(q)
           /\ \A i \in DOMAIN q : q[i].mentionCount = mentionsOf(q[i].userId)
           /\ \A u \in EvidencedRegular \ idsOf(q), v \in idsOf(q) :
                 mentionsOf(u) <= mentionsOf(v)

\* More than N Regular users are evidenced; the one with the most mentions was
\* met last and one with fewer is left out.
C9_Witness ==
    /\ Qualified
    /\ Cardinality(EvidencedRegular) > TOP_COUNT
    /\ \E u \in EvidencedRegular \ idsOf(qualified.top30Regular) :
          mentionsOf(u) < qualified.threshold
    /\ input.mentionCount[Len(input.mentionCount)].userId
         = qualified.top30Regular[1].userId

\* ------------------------------------------------- the runs: vocabulary
\* The last run went through manageRoles to its end.
Completed == result.outcome = "completed"

\* The lists of the decision record of the last completed run.
added == result.logData.rolesAdded

removed == result.logData.rolesRemoved

graceActive == result.logData.graceUsers

\* part_000 keeps no list of the protected members it skips.
protectedSkipped ==
    IF "protectedSkipped" \in DOMAIN result.logData
    THEN result.logData.protectedSkipped ELSE <<>>

\* The role-holders with a protected role, as the last run found them.
ProtectedHolders ==
    {u \in Users : /\ HIERARCH_ROLE_ID \in before.guild[u]
                   /\ hasProtectedRole(before.guild[u])}

\* The entries of u in a list.
entriesOf(seq, u) == {i \in DOMAIN seq : seq[i].userId = u}

\* ------------------------------------------------------------------- C1
\* C1: whatever the runs before and whatever the mentions, a role-holder with
\* a protected role is not in the removed list of a run, is not passed to
\* roles.remove, is not in the grace list, keeps the role, and the run neither
\* creates nor increments a grace record of theirs.
C1_ProtectedExempt ==
    result.outcome \in {"completed", "threw", "role_missing"} =>
        \A u \in ProtectedHolders :
            /\ u \notin Range(result.removeCalls)
            /\ HIERARCH_ROLE_ID \in guild[u]
            /\ Completed => u \notin idsOf(removed) \cup idsOf(graceActive)
            /\ u \in DOMAIN graceFile =>
                  u \in DOMAIN before.graceFile /\ graceFile[u] = before.graceFile[u]

\* A protected role-holder with no mention in the window, not even a Member,
\* went through a completed run with a grace record left from earlier runs.
C1_Witness ==
    /\ Completed
    /\ \E u \in ProtectedHolders :
          /\ mentionsOf(u) = 0
          /\ u \in DOMAIN before.graceFile
          /\ u \in DOMAIN graceFile

\* ------------------------------------------------------------------- C2
\* C2: for G > 0, a role-holder without a protected role and without a grace
\* record who is disqualified in consecutive runs has weeksOut = k after the
\* k-th of them, k = 1..G, and one entry in the grace list with that weeksOut;
\* the (G+1)-th gives one entry in the removed list, with the reason 'Grace
\* period expired', and deletes the grace record.
C2_GraceProgression ==
    (Completed /\ GRACE_PERIOD_WEEKS > 0) =>
        \A u \in Users :
            /\ streak[u] \in 1..GRACE_PERIOD_WEEKS =>
                  /\ u \in DOMAIN graceFile
                  /\ graceFile[u] = streak[u]
                  /\ Cardinality(entriesOf(graceActive, u)) = 1
                  /\ \A i \in entriesOf(graceActive, u) :
                        graceActive[i].weeksOut = streak[u]
                  /\ entriesOf(removed, u) = {}
            /\ streak[u] = GRACE_PERIOD_WEEKS + 1 =>
                  /\ Cardinality(entriesOf(removed, u)) = 1
                  /\ \A i \in entriesOf(removed, u) :
                        removed[i].reason = "Grace period expired"
                  /\ u \notin DOMAIN graceFile
                  /\ entriesOf(graceActive, u) = {}

\* With G = 2, the third consecutive disqualified run of a role-holder.
C2_Witness ==
    /\ Completed
    /\ GRACE_PERIOD_WEEKS = 2
    /\ \E u \in Users :
          /\ streak[u] = 3
          /\ u \in DOMAIN before.graceFile
          /\ before.graceFile[u] = 2
          /\ u \in idsOf(removed)

\* ------------------------------------------------------------------- C3
\* C3: when the program is run twice in immediate succession on the same
\* mentions and the second run finds the roles the first run found, the two
\* runs have the same added list and the same removed list.
C3_Idempotent ==
    [][(/\ Completed
        /\ result'.outcome = "completed"
        /\ input' = input
        /\ before'.guild = before.guild)
       => /\ result'.logData.rolesAdded = added
          /\ result'.logData.rolesRemoved = removed]_vars

\* ------------------------------------------------------------------- C4
\* C4: in one run no user is in two of the lists added, removed, grace and
\* protected-skipped, nor twice in one of them.
C4_ListsDisjoint ==
    Completed =>
        LET all == userIds(added) \o userIds(removed)
                   \o userIds(graceActive) \o userIds(protectedSkipped)
        IN \A i, j \in DOMAIN all : all[i] = all[j] => i = j

\* A run that added one user and put another into grace or removed them.
C4_Witness ==
    /\ Completed
    /\ added # <<>>
    /\ removed \o graceActive # <<>>
    /\ before.graceFile # EmptyGrace

\* ------------------------------------------------------------------- C5
\* C5: after a completed run the grace file has no record of a user the run
\* held qualified, whatever it had before the run and whether or not the user
\* holds the role.
C5_QualifiedNotInGrace ==
    Completed => qualifiedIdsOf(program, qualified) \cap DOMAIN graceFile = {}

\* A user with a grace record qualified, holding the role already.
C5_Witness ==
    /\ Completed
    /\ \E u \in qualifiedIdsOf(program, qualified) :
          /\ u \in DOMAIN before.graceFile
          /\ HIERARCH_ROLE_ID \in before.guild[u]

\* ------------------------------------------------------------------ C10
\* The qualified users who did not hold the role when the run started.
qualifiedWithoutRole ==
    {u \in qualifiedIdsOf(program, qualified) : HIERARCH_ROLE_ID \notin before.guild[u]}

\* C10 as stated: in every completed run the added list is exactly the
\* qualified users (Regular, Special, Protected) who did not hold the role at
\* the start of the run.
C10_AddedAllQualified ==
    Completed => idsOf(added) = qualifiedWithoutRole

\* C10 as amended: in every completed run of part_000 the added list is
\* exactly the qualified users who did not hold the role at the start; in
\* every completed run of role-manager.js it is exactly the top Regular users
\* who did not hold it (an active special member without the role is not
\* added).  Either way each user is added once.
C10_AddedPerProgram ==
    Completed =>
        /\ noDuplicates(added)
        /\ idsOf(added) =
              IF program = "part_000" THEN qualifiedWithoutRole
              ELSE qualifiedWithoutRole \cap idsOf(qualified.top30Regular)

\* part_000 added a qualified special member and left alone a qualified
\* member who held the role.
C10_Witness ==
    /\ Completed
    /\ program = "part_000"
    /\ idsOf(added) \cap idsOf(qualified.qualifiedSpecial) # {}
    /\ qualifiedIdsOf(program, qualified) \ idsOf(added) # {}

\* ------------------------------------------------------------------ C11
\* A run has gone through its classification (whatever manageRoles did).
Ran == result.outcome \in {"completed", "threw", "role_missing"}

\* The Special tier as the program of the behaviour classified it.
specialTier ==
    IF program = "part_000"
    THEN categorizeMembers(before.guild, input.faults.fetchFails,
                           input.mentionCount).specialMembers
    ELSE qualified.activeSpecialRoles

\* The Regular tier as the program of the behaviour classified it.
regularTier ==
    IF program = "part_000"
    THEN categorizeMembers(before.guild, input.faults.fetchFails,
                           input.mentionCount).regularMembers
    ELSE filterEligibleUsers(before.guild, input.faults.fetchFails, input.mentionCount)

\* The Protected tier as part_000 classified it (role-manager.js keeps none:
\* it only skips the protected role-holders).
protectedTier ==
    IF program = "part_000"
    THEN categorizeMembers(before.guild, input.faults.fetchFails,
                           input.mentionCount).protectedMembers
    ELSE <<>>

\* C11: every evidenced user with the Member role is in exactly one tier,
\* Protected before Special before Regular: the Special tier is the evidenced
\* members with a special and no protected role, the Regular tier those with
\* neither, a member with a protected role is in neither of the two, and a
\* user without the Member role is in no tier.
C11_OneTierByPrecedence ==
    Ran =>
        /\ idsOf(specialTier) = EvidencedSpecial
        /\ idsOf(regularTier) = EvidencedRegular
        /\ idsOf(protectedTier) \subseteq EvidencedProtected
        /\ program = "part_000" => idsOf(protectedTier) = EvidencedProtected
        /\ noDuplicates(specialTier \o regularTier \o protectedTier)

\* ------------------------------------------------------------------ C12
\* The processes between the load of the grace file and its write.
InFlight == {p \in Procs : inflight[p].phase = "loaded"}

\* The grace file after the runs of the processes one after the other, from
\* the directory and the grace file the first of them found.
RECURSIVE storeAfterRuns(_, _, _)
storeAfterRuns(n, g, grace) ==
    IF n = 0 THEN grace
    ELSE LET r == ready(g, grace, input.mentionCount, NoFaults)
         IN storeAfterRuns(n - 1, r.run.guild, r.run.graceFile)

\* C12: two runs started against the same grace file are never both between
\* loading the store and writing it back, and once both have written the
\* store is what the two runs one after the other leave.
C12_OneRunInFlight ==
    /\ Cardinality(InFlight) <= 1
    /\ (\A p \in Procs : inflight[p].phase = "done") =>
          graceFile = storeAfterRuns(NumProcs, before.guild, before.graceFile)

\* C12, second half alone: no update of the store is lost.
C12_NoLostUpdate ==
    (\A p \in Procs : inflight[p].phase = "done") =>
        graceFile = storeAfterRuns(NumProcs, before.guild, before.graceFile)

\* ------------------------------------------------------------------ C13
RoleMissing == result.outcome = "role_missing"

\* C13: a run that does not find the Hierarch role leaves the grace file as
\* it was and adds the role to nobody and removes it from nobody.
C13_RoleMissingMutatesNothing ==
    RoleMissing =>
        /\ graceFile = before.graceFile
        /\ guild = before.guild
        /\ result.addCalls = <<>>
        /\ result.removeCalls = <<>>

\* A run without the role that had something to do: a qualified user lacked
\* the role and an unqualified, unprotected holder had a grace record.
C13_Witness ==
    /\ RoleMissing
    /\ \E u \in qualifiedIdsOf(program, qualified) :
          HIERARCH_ROLE_ID \notin before.guild[u]
    /\ \E v \in DOMAIN before.graceFile :
          /\ HIERARCH_ROLE_ID \in before.guild[v]
          /\ v \notin qualifiedIdsOf(program, qualified)
          /\ ~hasProtectedRole(before.guild[v])

\* ------------------------------------------------------------------ C14
\* C14: a run that does not find the Hierarch role ends with the error exit,
\* never with "completed successfully".
C14_RoleMissingIsFatal == RoleMissing => result.exitCode = 1

\* ------------------------------------------------------------------ C16
\* The run met a failure about one user: a member lookup, a roles.add or a
\* roles.remove was rejected.
UserFailure ==
    /\ Ran
    /\ input.faults.roleFound
    /\ input.faults.fetchFails \cup input.faults.addFails
         \cup input.faults.removeFails # {}

\* C16: a failure about one user does not abort the run: the run completes
\* and writes the grace file.
C16_UserFailureIsolated == UserFailure => Completed /\ result.exitCode = 0

\* C16 for lookups and revocations alone.
C16_LookupAndRevokeIsolated ==
    (UserFailure /\ input.faults.addFails = {}) => Completed /\ result.exitCode = 0

\* ------------------------------------------------------------------ C15
\* The scan did not read every tracked channel to the end of the window.
ScanIncomplete == \E i \in DOMAIN channels : channels[i].status # "ok"

\* C15: a run whose scan is incomplete is aborted: it does not complete, it
\* calls neither roles.add nor roles.remove and leaves the grace file as it
\* was.
C15_IncompleteScanAborts ==
    (Ran /\ ScanIncomplete) =>
        /\ ~Completed
        /\ result.addCalls = <<>>
        /\ result.removeCalls = <<>>
        /\ guild = before.guild
        /\ graceFile = before.graceFile

\* C15 for a rejected fetch alone.
C15_RejectedFetchAborts ==
    (Ran /\ \E i \in DOMAIN channels : channels[i].status = "throws") =>
        /\ result = Aborted
        /\ guild = before.guild
        /\ graceFile = before.graceFile

\* ------------------------------------------------------------------ C17
\* C17: a run that finds no grace file does what a run on the empty store
\* does, and completes when no call is rejected; a run that finds a grace
\* file that does not parse throws, exits with code 1, calls neither
\* roles.add nor roles.remove and leaves the file as it is.  (A step that
\* leaves result.outcome alone is not the end of a run.)
C17_GraceFileLoad ==
    [][(result.outcome = "none" /\ result'.outcome # "none") =>
          /\ graceFileState = "missing" =>
                LET r == ready(guild, EmptyGrace, input'.mentionCount, input'.faults)
                IN /\ result'.outcome = r.run.outcome
                   /\ graceFile' = r.run.graceFile
                   /\ guild' = r.run.guild
                   /\ input'.faults = NoFaults => result'.outcome = "completed"
          /\ graceFileState = "corrupt" =>
                /\ result'.outcome = "threw"
                /\ result'.exitCode = 1
                /\ result'.addCalls = <<>>
                /\ result'.removeCalls = <<>>
                /\ guild' = guild
                /\ graceFileState' = "corrupt"]_(result.outcome)

\* A run on a grace file that does not parse, with a qualified user who
\* lacks the role and an unqualified, unprotected holder.
C17_Witness ==
    /\ graceFileState = "corrupt"
    /\ result.outcome = "threw"
    /\ \E u \in qualifiedIdsOf(program, qualified) : HIERARCH_ROLE_ID \notin guild[u]
    /\ \E v \in holders(guild) :
          /\ v \notin qualifiedIdsOf(program, qualified)
          /\ ~hasProtectedRole(guild[v])

\* A run after the grace file was deleted: it completed and wrote the file.
C17_ColdStart ==
    /\ graceFileState = "valid"
    /\ Completed
    /\ before.graceFile = EmptyGrace
    /\ graceFile # EmptyGrace

\* ------------------------------------------------------------------ C18
\* The role-holders the run found neither qualified nor protected.
unqualifiedHolders ==
    {u \in holders(before.guild) :
        /\ u \notin qualifiedIdsOf(program, qualified)
        /\ ~hasProtectedRole(before.guild[u])}

\* The run's removal decisions about u with the given reason.
removedFor(u, reason) ==
    {i \in DOMAIN removed : removed[i].userId = u /\ removed[i].reason = reason}

\* No grace record was created or modified by the run.
noGraceWritten ==
    \A u \in DOMAIN graceFile :
        u \in DOMAIN before.graceFile /\ graceFile[u] = before.graceFile[u]

immediateReason == IF program = "part_000" THEN "Not qualified" ELSE "Not in top 30"

requalified(u) ==
    /\ Ran
    /\ input.faults.roleFound
    /\ u \in DOMAIN before.graceFile
    /\ u \in qualifiedIdsOf(program, qualified)

\* C19: the grace record of a user who is in the qualified set of a run is
\* deleted in that run (so that the next disqualified run finds no record and
\* starts at weeksOut = 1).
C19_RequalifyResets ==
    \A u \in Users : requalified(u) => u \notin DOMAIN graceFile

\* C19 for the runs in which no roles.add was rejected.
C19_ResetsUnlessAddRejected ==
    \A u \in Users :
        (requalified(u) /\ input.faults.addFails = {}) => u \notin DOMAIN graceFile

\* ------------------------------------------------------------------ C20
\* The run removed u for an expired grace period.
expired(u) ==
    /\ Completed
    /\ \E i \in DOMAIN removed :
          removed[i].userId = u /\ removed[i].reason = "Grace period expired"

\* C20: a user removed for an expired grace period was outside the qualified
\* set in that run and in each of the G runs before it, aborted runs counted.
C20_ExpiryAfterGRuns ==
    \A u \in Users : expired(u) => sinceQualified[u] >= GRACE_PERIOD_WEEKS + 1

\* A removal for an expired grace period at GRACE_PERIOD_WEEKS >= 1.
C20_ExpiredRemoval == \E u \in Users : expired(u)

\* ------------------------------------------------------------------ C21
\* The mention map of the last run with its entries met in another order.
reorderings(mentionCount) ==
    {[i \in DOMAIN mentionCount |-> mentionCount[p[i]]] :
        p \in Permutations(DOMAIN mentionCount)}

\* What steps 2 and 3 of the last run give on another mention map.
requalify(mentionCount) ==
    LET c == categorizeMembers(before.guild, input.faults.fetchFails, mentionCount)
    IN determineQualified(c.regularMembers, c.specialMembers, c.protectedMembers)

\* C21: the same records met in another order of scanning give the same
\* qualified Regular users and the same threshold.
C21_OrderIndependent ==
    Qualified =>
        \A m \in reorderings(input.mentionCount) :
            /\ idsOf(requalify(m).top30Regular) = idsOf(qualified.top30Regular)
            /\ requalify(m).threshold = qualified.threshold

\* C21 for the threshold alone.
C21_ThresholdOrderIndependent ==
    Qualified =>
        \A m \in reorderings(input.mentionCount) :
            requalify(m).threshold = qualified.threshold

\* ------------------------------------------------------------------ C22
\* The role-holders at the start of the run who are not in its qualified set.
unqualifiedAtStart ==
    {u \in holders(before.guild) : u \notin qualifiedIdsOf(program, qualified)}

\* The number of entries of u in the three lists together.
decisionsAbout(u) ==
    Cardinality(entriesOf(removed, u)) + Cardinality(entriesOf(graceActive, u))
      + Cardinality(entriesOf(protectedSkipped, u))

\* C22: every role-holder at the start of a completed run who is not in the
\* qualified set is in exactly one of removed, graceActive and
\* protectedSkipped, the protected ones in protectedSkipped.
C22_HolderInOneList ==
    Completed =>
        \A u \in unqualifiedAtStart :
            /\ decisionsAbout(u) = 1
            /\ hasProtectedRole(before.guild[u]) => entriesOf(protectedSkipped, u) # {}

\* C22 for role-manager.js, and for the unprotected holders of part_000,
\* when no call about the user is rejected.
C22_OneListButProtected ==
    Completed =>
        \A u \in unqualifiedAtStart :
            (/\ u \notin input.faults.fetchFails \cup input.faults.removeFails
             /\ program = "part_000" => ~hasProtectedRole(before.guild[u])) =>
                /\ decisionsAbout(u) = 1
                /\ hasProtectedRole(before.guild[u]) => entriesOf(protectedSkipped, u) # {}

\* ------------------------------------------------------------------ C23
\* C23: after a run that wrote the grace file every record in it has a
\* weeksOut from 1 to G, also when a roles.remove was rejected.
C23_WeeksOutInRange ==
    Completed =>
        \A u \in DOMAIN graceFile : graceFile[u] \in 1..GRACE_PERIOD_WEEKS

\* C23 for the runs in which no roles.remove is rejected, and for the runs
\* before the first rejected one.
C23_InRangeUnlessRemoveRejected ==
    Completed =>
        \A u \in DOMAIN graceFile :
            \/ graceFile[u] \in 1..GRACE_PERIOD_WEEKS
            \/ u \in input.faults.removeFails
            \/ u \in DOMAIN before.graceFile /\ before.graceFile[u] = graceFile[u]

\* ------------------------------------------------------------------ C24
\* C24: with G > 0 no user goes through more than G consecutive completed
\* runs as an unqualified, unprotected role-holder (every call about the
\* user answered) without a removal: the (G+1)-th such run at the latest
\* puts the user into rolesRemoved, and part_000 has then taken the role
\* away.
C24_RemovedByGPlusOne ==
    GRACE_PERIOD_WEEKS > 0 =>
        /\ \A u \in Users : outRuns[u] <= GRACE_PERIOD_WEEKS
        /\ (Completed /\ program = "part_000") =>
              \A u \in idsOf(removed) : HIERARCH_ROLE_ID \notin guild[u]

\* The (G+1)-th run of a user whose grace had run to G >= 2: removed for an
\* expired grace period, the tally starts again.
C24_Witness ==
    /\ GRACE_PERIOD_WEEKS >= 2
    /\ \E u \in Users :
          /\ expired(u)
          /\ u \in DOMAIN before.graceFile
          /\ before.graceFile[u] = GRACE_PERIOD_WEEKS
          /\ outRuns[u] = 0
          /\ HIERARCH_ROLE_ID \in before.guild[u]

\* ------------------------------------------------------------------ C25
\* C25: after a completed run of part_000 the role-holders are the holders at
\* the start of the run and the qualified users, less the removed ones: every
\* qualified user holds the role, no removed user does, and the users on
\* grace and the protected holders still do.
C25_HoldersAfterRun ==
    (Completed /\ program = "part_000") =>
        /\ holders(guild) =
              (holders(before.guild) \cup qualifiedIdsOf(program, qualified))
                 \ idsOf(removed)
        /\ qualifiedIdsOf(program, qualified) \subseteq holders(guild)
        /\ idsOf(removed) \cap holders(guild) = {}
        /\ idsOf(graceActive) \cup ProtectedHolders \subseteq holders(guild)

\* A completed run of part_000 that added the role to one user and removed
\* it from another.
C25_Witness ==
    /\ Completed
    /\ program = "part_000"
    /\ added # <<>>
    /\ removed # <<>>

\* A completed run of part_000 with a user on grace and a protected holder.
C25_WitnessKept ==
    /\ Completed
    /\ program = "part_000"
    /\ graceActive # <<>>
    /\ ProtectedHolders # {}

\* ------------------------------------------------------------------ C26
\* The users the grace period logic of the run worked on: unqualified
\* role-holders without a protected role whose lookup was answered.
graceSubjects ==
    {u \in holders(before.guild) :
        /\ u \notin qualifiedIdsOf(program, qualified)
        /\ ~hasProtectedRole(before.guild[u])
        /\ u \notin input.faults.fetchFails}

\* The users whose grace record the run has no business with.
bystanders ==
    {u \in DOMAIN before.graceFile :
        u \notin qualifiedIdsOf(program, qualified) /\ u \notin graceSubjects}

\* C26: a run leaves the grace record of a user who is neither qualified nor
\* an unprotected role-holder (the role lost, a protected role gained, the
\* lookup failed) as it was: not advanced, not deleted.
C26_Frame ==
    Ran =>
        \A u \in bystanders :
            u \in DOMAIN graceFile /\ graceFile[u] = before.graceFile[u]

\* A completed run met a role-holder with a grace record whose lookup failed.
C26_Witness ==
    /\ Completed
    /\ \E u \in bystanders :
          /\ u \in holders(before.guild)
          /\ ~hasProtectedRole(before.guild[u])
          /\ u \in input.faults.fetchFails

\* A completed run with a grace record of a user who now has a protected
\* role.
C26_WitnessProtected ==
    /\ Completed
    /\ \E u \in bystanders : u \in ProtectedHolders

\* A completed run with a grace record of a user who no longer holds the
\* role.
C26_WitnessRoleLost ==
    /\ Completed
    /\ \E u \in bystanders : u \notin holders(before.guild)

==========================================================================
